---- MODULE Spec2Model ----
(***************************************************************************)
(* Model of the chunked batch-fetch engine of s-nt-s/imdb-sql:             *)
(* core/wiki.py, retry_fetch(chunk_size)(func).wrapper, together with      *)
(* core/util.py iter_chunk and the WikiError raised by WikiApi.query and   *)
(* WikiApi.query_sparql.                                                   *)
(*                                                                         *)
(* One behaviour is a sequence of calls of one retry_fetch-wrapped         *)
(* operation of one process: internal_cache outlives the calls, everything *)
(* else is local to a call.  A call is a sequence of steps: Enter (lines   *)
(* 79-108), then per round RoundStart (109-115) and one Chunk* step per    *)
(* chunk (116-136), then Return (138-141).  Python dicts are functions     *)
(* whose DOMAIN is the key set; Python None is the string "None" where it  *)
(* is a key or a value, and 0 where it is an http_code.                    *)
(*                                                                         *)
(* A second part models the country reconciliation of core/imdb.py,        *)
(* IMDBApi.get_countries and IMDBApi.__merge_countries: one behaviour of   *)
(* SpecCountries is one call of get_countries, an iteration of its loop    *)
(* per step (MergeOne), on evidence fixed in the initial state.            *)
(***************************************************************************)
EXTENDS Integers, FiniteSets, Sequences, TLC

VARIABLES
    universe,        \* what the caller and the remote source can do in this run
    chunk_size,      \* retry_fetch(chunk_size=...): the decorator's parameter
    memo_enabled,    \* TRUE in the program; FALSE = internal_cache always empty
    internal_cache,  \* dict (key_cache, key) -> value, shared by all the calls
    pc,              \* "idle" | "loop" | "chunks" | "returned" | "raised"
    calls,           \* number of calls of the wrapper so far
    args,            \* *args of the current call, as a set
    kw,              \* **kwargs of the current call (they determine key_cache)
    undone,          \* pending keys
    result,          \* dict key -> value: the mapping the call returns
    error_query,     \* dict http_code -> length of the recorded query
    observed,        \* history, kept when universe.history: http_code -> length
                     \* of the shortest query that failed with it in the current
                     \* call, whatever the round
    count,           \* number of calls of func made by the current call
    tries,           \* number of rounds started
    cur_chunk_size,  \* chunk size of the current round
    todo,            \* keys of list(undone), taken at the round's start, not yet sent
    chunk,           \* the chunk sent to func by the last chunk step
    fetched,         \* what that call of func gave, falsy values dropped
    e,               \* the exception of the last step: [type, http_code]
    now,             \* datetime.now(), in seconds since the call was entered
    until,           \* the call's deadline
    call_end,        \* value of now when the last call of func returned or raised
    repeat,          \* the current call repeats the previous, fully resolved, call
    ids,             \* IMDBApi.get_countries: the *ids of the batch
    wiki_data,       \* dict id -> WikiImdbCountry, what WIKI.get_countries gave
    omdb_data,       \* dict id -> what IMDBApi.__get_countries gives for the id
    pending_ids,     \* ids the loop of get_countries has not reached yet
    i,               \* the id of the last iteration
    ctr,             \* what __merge_countries returned in the last iteration
    r,               \* dict id -> joined countries: what get_countries returns
    cpc,             \* position in get_countries: "idle" | "loop" | "returned"
    ACTIVE,          \* FilmAffinityApi.ACTIVE, an attribute of the class
    json_cache,      \* ids with a fresh, readable out/filmaffinity/{id}.json
    html_cache,      \* ids with a fresh cache/filmaffinity/{id}.html
    ff_batch,        \* number of the running batch of FilmAffinityApi.get calls
    ff_calls,        \* number of FilmAffinityApi.get calls so far
    ff_id,           \* the id of the last FilmAffinityApi.get call
    ff_ret,          \* what it returned: "film" | None, or "raised"
    ff_requested,    \* whether it sent a request to filmaffinity.com
    omdbapi_activate, \* IMDBApi.__omdbapi_activate
    omdb_memo,       \* functools.cache of __get_from_omdbapi: id -> "js" | None
    omdb_json,       \* ids with a fresh out/omdb/{id}.json
    omdb_calls,      \* number of get_from_omdbapi calls so far
    omdb_id,         \* the id of the last get_from_omdbapi call
    omdb_ret,        \* what it returned: "js" | None, or "raised"
    omdb_answer,     \* what OMDb answered to it; NoRequest when it was not asked
    alpha_args,      \* WikiApi.get_alpha3: its *args, as a set
    alpha_pc,        \* position in get_alpha3: "loop" | "returned" | "raised"
    val_field,       \* number of the properties of lines 375-380 tried so far
    alpha_undone,    \* undone of get_alpha3: the keys sent for the last property
    alpha_got,       \* what get_dict_uniq_tuple returned for it: key -> values
    done             \* dict key -> alpha-3 code: what get_alpha3 returns

vars == <<universe, chunk_size, memo_enabled, internal_cache, pc, calls, args, kw,
          undone, result, error_query, observed, count, tries, cur_chunk_size, todo, chunk,
          fetched, e, now, until, call_end, repeat,
          ids, wiki_data, omdb_data, pending_ids, i, ctr, r, cpc,
          ACTIVE, json_cache, html_cache, ff_batch, ff_calls, ff_id, ff_ret, ff_requested,
          omdbapi_activate, omdb_memo, omdb_json, omdb_calls, omdb_id, omdb_ret,
          omdb_answer, alpha_args, alpha_pc, val_field, alpha_undone, alpha_got, done>>

\* The state of WikiApi.get_alpha3.
alphaVars == <<alpha_args, alpha_pc, val_field, alpha_undone, alpha_got, done>>

\* The state of the FilmAffinity lookups.
filmaffinityVars == <<ACTIVE, json_cache, html_cache, ff_batch, ff_calls, ff_id, ff_ret,
                      ff_requested>>

\* The state of the OMDb lookups.
omdbVars == <<omdbapi_activate, omdb_memo, omdb_json, omdb_calls, omdb_id, omdb_ret,
              omdb_answer>>

\* The state of the two sources with a deactivation flag, which neither the
\* wrapper nor the merge of the countries touches: get_countries is modelled
\* from what __get_countries gave (omdb_data).
sourceVars == <<filmaffinityVars, omdbVars>>

\* The state of IMDBApi.get_countries, which no step of the wrapper touches.
countryVars == <<ids, wiki_data, omdb_data, pending_ids, i, ctr, r, cpc>>

-----------------------------------------------------------------------------
(* Bounds of the model. *)

\* Number of calls of the wrapper in one behaviour.
MaxCalls == 2

\* Largest chunk_size a decorated operation is given in the model (the
\* repository uses 300, 1000 and 5000 for key sets of thousands of ids).
MaxChunkSize == 2

\* In the many-keys scenario: the largest chunk_size.
MaxBigChunkSize == 7

\* In the diagnostics scenario: the largest chunk_size.
MaxDiagChunkSize == 3

\* Duration of one call of func (one remote query), in seconds.
CallDur == 20

\* The keys a caller passes (IMDb ids), the two non-keys that line 79 drops,
\* the truthy values the source answers, one falsy value, the kwargs.
Keys == {"tt1", "tt2"}
BigKeys == {"tt1", "tt2", "tt3", "tt4", "tt5", "tt6"}
None == "None"
Empty == ""
Vals == {"a", "b"}
Falsy == "falsy"
Opts == {"o1"}

\* The http_code of a WikiError: 429, another status of an HTTPError, and 0
\* for None (line 179: the exception was not an HTTPError).
OtherCodes == {500}
TwoOpts == {"o1", "o2"}
ThreeKeys == {"tt1", "tt2", "tt3"}
TwoCodes == {500, 503}

-----------------------------------------------------------------------------
(* Program constants. *)

Budget == 300        \* timedelta(seconds=60*5)
MaxTries == 3        \* tries < 3
Pause == 5           \* sleep(5) before a round after the first
Cooldown == 60       \* sleep(60) after a rate-limited chunk
RateLimited == 429   \* e.http_code == 429

-----------------------------------------------------------------------------
(* Dicts. *)

EmptyDict == [k \in {} |-> None]

Get(d, k) == IF k \in DOMAIN d THEN d[k] ELSE None

Update(d, f) == [k \in DOMAIN d \cup DOMAIN f |-> IF k \in DOMAIN f THEN f[k] ELSE d[k]]

Restrict(d, S) == [k \in S |-> d[k]]

Max(a, b) == IF a >= b THEN a ELSE b

Min(a, b) == IF a <= b THEN a ELSE b

-----------------------------------------------------------------------------
(* The pieces of the wrapper. *)

\* Mutant of DropEmpty: only None is dropped.
DropEmpty_KeepsEmptyString(a) == a \ {None}

\* line 79: undone = set(args).difference({None, ''})
DropEmpty(a) == a \ {None, Empty}

\* Mutant of KeyCache: the kwargs are left out of the key.
KeyCache_IgnoresOptions(o) == <<"func", "">>

\* line 87: key_cache = json.dumps((func.__name__, kwargs_to_json), sort_keys=True);
\* one wrapped operation is modelled, so key_cache is decided by the kwargs.
KeyCache(o) == <<"func", o>>

\* lines 89-91: the keys of u whose internal_cache entry is not None.
MemoHits(u, o) ==
    IF memo_enabled
    THEN {a \in u : Get(internal_cache, <<KeyCache(o), a>>) # None}
    ELSE {}

\* Mutant of LoopCond: no ceiling on the number of rounds.
LoopCond_NoRoundCeiling ==
    undone # {} /\ (tries = 0 \/ now < until)

\* line 109: the while condition.
LoopCond ==
    undone # {} /\ (tries = 0 \/ (now < until /\ tries < MaxTries))

\* Mutant of ShrinkChunkSize: the number of pending keys is not looked at.
ShrinkChunkSize_IgnoresPending(cur, n) == Max(1, cur \div 3)

\* Mutant of ShrinkChunkSize: the division by 3 is lost.
ShrinkChunkSize_NoDivision(cur, n) == Max(1, Min(cur, n))

\* line 113: max(1, min(cur_chunk_size, len(undone)) // 3)
ShrinkChunkSize(cur, n) == Max(1, Min(cur, n) \div 3)

\* Mutant of NextChunks: a chunk can be cut short before the list ends.
NextChunks_AnySize(size, left) ==
    {c \in SUBSET left : c # {} /\ Cardinality(c) <= size}

\* core/util.py iter_chunk(size, list(undone)): the next chunk is the next
\* `size` elements of the list, or what is left of it; the order of
\* list(undone) is the set's iteration order, which is arbitrary.
NextChunks(size, left) ==
    {c \in SUBSET left : Cardinality(c) = Min(size, Cardinality(left))}

\* Mutant of Truthy: falsy values are kept.
Truthy_KeepsFalsy(m) == m

\* line 121: fetched = {k: v for k, v in fetched.items() if v}
Truthy(m) == Restrict(m, {k \in DOMAIN m : m[k] # Falsy /\ m[k] # None})

\* Mutant of SleepAfter: no cooldown after a rate limit.
SleepAfter_NoCooldown(code) == 0

\* lines 124-125: the sleep that follows a WikiError with this http_code.
SleepAfter(code) == IF code = RateLimited THEN Cooldown ELSE 0

\* the query text of a chunk (__mk_query): a fixed template around the
\* chunk's ids; only its length is used (line 128) and it is counted in ids.
QueryLen(c) == Cardinality(c)

\* Mutant of RecordError: the comparison is turned, the longest query is kept.
RecordError_KeepsLongest(eq, code, c) ==
    IF code = RateLimited \/ code = 0
    THEN eq
    ELSE IF code \notin DOMAIN eq \/ eq[code] < QueryLen(c)
         THEN Update(eq, [x \in {code} |-> QueryLen(c)])
         ELSE eq

\* lines 126-129: the sample query kept for an http_code.
RecordError(eq, code, c) ==
    IF code = RateLimited \/ code = 0
    THEN eq
    ELSE IF code \notin DOMAIN eq \/ eq[code] > QueryLen(c)
         THEN Update(eq, [x \in {code} |-> QueryLen(c)])
         ELSE eq

\* lines 132-135, for the keys of f in ks: result[k] = v; internal_cache[...] = v
MergeResult(res, f, ks) == Update(res, Restrict(f, ks))

MergeCache(cache, o, f, ks) ==
    IF memo_enabled
    THEN Update(cache, [x \in {<<KeyCache(o), k>> : k \in ks} |-> f[x[2]]])
    ELSE cache

\* Mutant of RemoveDone: merged keys stay pending.
RemoveDone_KeepsPending(u, ks) == u

\* line 135: undone.remove(k) for the keys in ks
RemoveDone(u, ks) == u \ ks

\* What func can answer for a chunk: a dict over keys of the source, each with a
\* truthy or a falsy value (None or an empty dict is the dict with no key).
AnswerKeys(c) == IF universe.foreign THEN universe.keys ELSE c

\* No statements are given: func is not one of the 1-to-1 operations.
NoWikidata == {<<None, None>>}

\* wiki.py, lines 574-585 (__get_dict_uniq_tuple) over the bindings of a query
\* whose VALUES ?k are the keys of c (lines 281-325, 345-361): the values of
\* each key of c that has one, W being the (key, value) statements of Wikidata.
GetDictUniqTuple(W, c) ==
    [k \in {x \in c : \E p \in W : p[1] = x} |-> {p[2] : p \in {q \in W : q[1] = k}}]

\* wiki.py, lines 587-606 (__get_dict_1_to_1): the keys with one value that no
\* other key of the same query has.
GetDict1To1(W, c) ==
    LET obj == GetDictUniqTuple(W, c)
        rev(v) == {k \in DOMAIN obj : v \in obj[k]}
    IN  [k \in {x \in DOMAIN obj : /\ Cardinality(obj[x]) = 1
                                   /\ \A v \in obj[x] : Cardinality(rev(v)) = 1}
           |-> CHOOSE v \in obj[k] : TRUE]

Answers(c) ==
    IF universe.wikidata # NoWikidata
    THEN {GetDict1To1(universe.wikidata, c)}
    ELSE IF universe.det
    THEN {Restrict(universe.truth, c \cap DOMAIN universe.truth)}
    ELSE UNION {[S -> universe.vals \cup universe.falsy] : S \in SUBSET AnswerKeys(c)}

NoError == [type |-> "none", http_code |-> 0]

-----------------------------------------------------------------------------
(* Actions. *)

\* lines 79-108: drop the non-keys, look the keys up in internal_cache, set the
\* loop's variables.  Removing a key from undone inside `for a in undone`
\* (line 93) makes the set iterator raise RuntimeError at its next step, also
\* when the key was the last one.
Enter(a, o) ==
    /\ pc \in {"idle", "returned", "raised"}
    /\ calls < universe.calls
    /\ calls' = calls + 1
    /\ args' = a
    /\ kw' = o
    /\ repeat' = (pc = "returned" /\ a = args /\ o = kw /\ undone = {}
                  /\ DropEmpty(a) # {} /\ DropEmpty(a) \subseteq DOMAIN result)
    /\ error_query' = EmptyDict
    /\ observed' = EmptyDict
    /\ count' = 0
    /\ tries' = 0
    /\ cur_chunk_size' = chunk_size
    /\ todo' = {}
    /\ chunk' = {}
    /\ fetched' = EmptyDict
    /\ now' = 0
    /\ until' = Budget
    /\ call_end' = 0
    /\ LET u == DropEmpty(a)
           hits == MemoHits(u, o)
       IN  IF u = {}
           THEN /\ pc' = "returned"
                /\ undone' = {}
                /\ result' = EmptyDict
                /\ e' = NoError
           ELSE IF hits = {}
           THEN /\ pc' = "loop"
                /\ undone' = u
                /\ result' = EmptyDict
                /\ e' = NoError
           ELSE \E h \in hits :
                /\ pc' = "raised"
                /\ undone' = u \ {h}
                /\ result' = [x \in {h} |-> internal_cache[<<KeyCache(o), h>>]]
                /\ e' = [type |-> "RuntimeError", http_code |-> 0]
    /\ UNCHANGED <<countryVars, sourceVars, alphaVars, universe, chunk_size, memo_enabled, internal_cache>>

Call == \E a \in universe.argsets, o \in universe.opts : Enter(a, o)

\* lines 109-115: the loop condition holds; start a round.
RoundStart ==
    /\ pc = "loop"
    /\ LoopCond
    /\ error_query' = EmptyDict
    /\ observed' = observed
    /\ tries' = tries + 1
    /\ IF tries + 1 > 1
       THEN /\ cur_chunk_size' = ShrinkChunkSize(cur_chunk_size, Cardinality(undone))
            /\ now' = now + Pause
       ELSE UNCHANGED <<cur_chunk_size, now>>
    /\ todo' = undone
    /\ pc' = "chunks"
    /\ UNCHANGED <<countryVars, sourceVars, alphaVars, universe, chunk_size, memo_enabled, internal_cache, calls, args, kw,
                   undone, result, count, chunk, fetched, e, until, call_end, repeat>>

\* lines 95-96: _log_line(rgs, ...) starts with sorted(set(rgs)), which raises
\* TypeError when rgs holds None together with a str.
LogLineRaises(rgs) == None \in rgs /\ rgs \ {None} # {}

LogLineError == [type |-> "TypeError in _log_line", http_code |-> 0]

\* lines 109, 138-141: the loop condition fails; log the call, with
\* _log_line(args, ...) (line 138), and return result.
Return ==
    /\ pc = "loop"
    /\ ~LoopCond
    /\ IF LogLineRaises(args)
       THEN pc' = "raised" /\ e' = LogLineError
       ELSE pc' = "returned" /\ e' = e
    /\ UNCHANGED <<countryVars, sourceVars, alphaVars, universe, chunk_size, memo_enabled, internal_cache, calls, args, kw,
                   undone, result, error_query, observed, count, tries, cur_chunk_size, todo,
                   chunk, fetched, now, until, call_end, repeat>>

\* What every chunk step does: take the next chunk (line 116), count it (117).
SendChunk(c) ==
    /\ pc = "chunks"
    /\ c \in NextChunks(cur_chunk_size, todo)
    /\ chunk' = c
    /\ todo' = todo \ c
    /\ count' = count + 1
    /\ call_end' = now + CallDur
    /\ UNCHANGED <<countryVars, sourceVars, alphaVars, universe, chunk_size, memo_enabled, calls, args, kw, tries,
                   cur_chunk_size, until, repeat>>

\* Mutant of AfterChunk: the round stops at the chunk.
AfterChunk_StopsRound(c) == "loop"

\* line 116: the for loop goes on with the next chunk, if there is one.
AfterChunk(c) == IF todo \ c = {} THEN "loop" ELSE "chunks"

\* lines 120-121, 130-136: func answers m.  Every key of fetched is merged and
\* removed from undone; undone.remove(k) raises KeyError for a key that is not
\* pending, after result and internal_cache were set for it (the keys before it,
\* in the dict's order, are merged).
ChunkOk ==
    \E c \in SUBSET todo : \E m \in Answers(c) :
        /\ SendChunk(c)
        /\ now' = now + CallDur
        /\ fetched' = Truthy(m)
        /\ error_query' = error_query
        /\ observed' = observed
        /\ LET f == Truthy(m)
               bad == DOMAIN f \ undone
           IN  IF bad = {}
               THEN /\ result' = MergeResult(result, f, DOMAIN f)
                    /\ internal_cache' = MergeCache(internal_cache, kw, f, DOMAIN f)
                    /\ undone' = RemoveDone(undone, DOMAIN f)
                    /\ e' = NoError
                    /\ pc' = AfterChunk(c)
               ELSE \E b \in bad : \E before \in SUBSET (DOMAIN f \cap undone) :
                    /\ result' = MergeResult(result, f, before \cup {b})
                    /\ internal_cache' = MergeCache(internal_cache, kw, f, before \cup {b})
                    /\ undone' = RemoveDone(undone, before)
                    /\ e' = [type |-> "KeyError", http_code |-> 0]
                    /\ pc' = "raised"

\* lines 122-131: func raises WikiError (query_sparql, line 180: the http_code
\* of an HTTPError, None for any other exception); the chunk's keys stay pending.
ChunkWikiError ==
    \E c \in SUBSET todo : \E code \in universe.codes :
        /\ SendChunk(c)
        /\ now' = now + CallDur + SleepAfter(code)
        /\ fetched' = EmptyDict
        /\ error_query' = RecordError(error_query, code, c)
        /\ observed' = IF universe.history THEN RecordError(observed, code, c) ELSE observed
        /\ e' = [type |-> "WikiError", http_code |-> code]
        /\ pc' = AfterChunk(c)
        /\ UNCHANGED <<internal_cache, undone, result>>

\* WikiApi.query, lines 184-196: a response that is not of the expected shape
\* makes query call WikiError(str(data), self.__last_query), without the
\* http_code its __init__ requires (line 44): a TypeError, which line 122 does
\* not catch.
QueryMalformed == [type |-> "TypeError", http_code |-> 0]

ChunkMalformed ==
    \E c \in SUBSET todo :
        /\ universe.malformed
        /\ SendChunk(c)
        /\ now' = now + CallDur
        /\ fetched' = EmptyDict
        /\ e' = QueryMalformed
        /\ pc' = IF e'.type = "WikiError" THEN AfterChunk(c) ELSE "raised"
        /\ UNCHANGED <<internal_cache, undone, result, error_query, observed>>

Next == Call \/ RoundStart \/ Return \/ ChunkOk \/ ChunkWikiError \/ ChunkMalformed

-----------------------------------------------------------------------------
(* The country reconciliation of core/imdb.py: IMDBApi.get_countries and     *)
(* IMDBApi.__merge_countries, over the WikiImdbCountry records that          *)
(* WikiApi.get_countries builds (core/wiki.py).  The tuples main and         *)
(* country_lang of a record and the tuple omdb are the sets of their values: *)
(* __merge_countries only tests them for emptiness and membership and turns  *)
(* them into sets.                                                           *)

\* The state of the wrapper, which no step of get_countries touches.
fetchVars == <<universe, chunk_size, memo_enabled, internal_cache, pc, calls, args, kw,
               undone, result, error_query, observed, count, tries, cur_chunk_size, todo, chunk,
               fetched, e, now, until, call_end, repeat>>

Countries == {"ESP", "FRA", "GBR", "USA"}
FewCountries == {"ESP", "FRA", "USA"}
TwoCountries == {"FRA", "USA"}
SixCountries == {"DEU", "ESP", "FRA", "GBR", "ITA", "USA"}
Roles == {"producer", "director", "writer", "casting"}

\* Largest number of contributors of a title, all roles together.
MaxMentions == 3

\* Program constant: line 182 of core/imdb.py.
index_threshold == 3

\* The natural order of the country codes: the order of str in Python.
Alphabet == <<"DEU", "ESP", "FRA", "GBR", "ITA", "USA">>

StrLT(a, b) ==
    \E x, y \in DOMAIN Alphabet : x < y /\ Alphabet[x] = a /\ Alphabet[y] = b

\* wiki.py, lines 404-407 and 410-413: the tuple of the countries of a title's
\* contributors in one role.  M is the set of the (role, country) pairs that
\* occur, D the pairs that occur a second time; the places in the tuple are of
\* no consequence, it is only counted.
RECURSIVE TupleOf(_)
TupleOf(S) ==
    IF S = {} THEN <<>>
    ELSE LET x == CHOOSE y \in S : TRUE IN <<x>> \o TupleOf(S \ {x})

RoleTuple(M, D, role) ==
    TupleOf({c \in SixCountries : <<role, c>> \in M})
        \o TupleOf({c \in SixCountries : <<role, c>> \in D})

\* tuple.count
Count(t, p) == Cardinality({k \in DOMAIN t : t[k] = p})

\* wiki.py, lines 417-420: {p: producer.count(p) for p in producer}
CountDict(t) == [p \in {t[k] : k \in DOMAIN t} |-> Count(t, p)]

\* wiki.py, lines 414-422: the record of one title.
WikiImdbCountry(main, M, D, lang) ==
    [main |-> main,
     producer |-> CountDict(RoleTuple(M, D, "producer")),
     director |-> CountDict(RoleTuple(M, D, "director")),
     writer |-> CountDict(RoleTuple(M, D, "writer")),
     casting |-> CountDict(RoleTuple(M, D, "casting")),
     country_lang |-> lang]

\* wd.producer.get(m, 0)
GetOr0(d, m) == IF m \in DOMAIN d THEN d[m] ELSE 0

\* imdb.py, lines 164-166: the values both sources give.
Intersection(wd, omdb) ==
    IF omdb # {} /\ wd.main # {} THEN omdb \cap wd.main ELSE {}

\* imdb.py, line 168: set(omdb) or set(wd.main)
Fallback_DropsMain(wd, omdb) == omdb

\* Mutant of Fallback: without OMDb countries, the countries of the
\* contributors are candidates too.
Fallback_AddsContributors(wd, omdb) ==
    IF omdb # {} THEN omdb
    ELSE wd.main \cup DOMAIN wd.producer \cup DOMAIN wd.director
             \cup DOMAIN wd.writer \cup DOMAIN wd.casting

Fallback(wd, omdb) == IF omdb # {} THEN omdb ELSE wd.main

\* imdb.py, lines 164-168: main before the language narrowing.
Candidates_Union(wd, omdb) == omdb \cup wd.main

Candidates(wd, omdb) ==
    IF Intersection(wd, omdb) = {} THEN Fallback(wd, omdb)
    ELSE Intersection(wd, omdb)

\* Mutant of Narrow: the test of ok_lang is lost.
Narrow_Unguarded(wd, main) ==
    IF wd.country_lang # {} THEN main \cap wd.country_lang ELSE main

\* Mutant of Narrow: the candidates are never narrowed.
Narrow_Skipped(wd, main) == main

\* imdb.py, lines 169-172
Narrow(wd, main) ==
    IF wd.country_lang # {} /\ main \cap wd.country_lang # {}
    THEN main \cap wd.country_lang
    ELSE main

\* imdb.py, lines 175-181: order[m]
Order(wd, m) ==
    <<IF m \in wd.country_lang THEN 1 ELSE 0,
      GetOr0(wd.producer, m),
      GetOr0(wd.director, m),
      GetOr0(wd.writer, m),
      GetOr0(wd.casting, m)>>

\* The order of Python tuples of the same length.
TupleGT(a, b) ==
    \E k \in DOMAIN a : a[k] > b[k] /\ \A j \in 1..(k - 1) : a[j] = b[j]

TupleGE(a, b) == a = b \/ TupleGT(a, b)

\* imdb.py, line 183: sorted(set(order.values()), reverse=True)
RECURSIVE SortedDesc(_)
SortedDesc(S) ==
    IF S = {} THEN <<>>
    ELSE LET mx == CHOOSE k \in S : \A j \in S : TupleGE(k, j)
         IN  <<mx>> \o SortedDesc(S \ {mx})

SortedOrder(wd, main) == SortedDesc({Order(wd, m) : m \in main})

\* imdb.py, lines 184-186
CutOff_AtTwo(wd, main) ==
    LET sorted_order == SortedOrder(wd, main)
    IN  IF Len(sorted_order) >= index_threshold
        THEN {m \in main : TupleGE(Order(wd, m), sorted_order[index_threshold - 1])}
        ELSE main

\* Mutant of CutOff: the first index_threshold candidates, ties cut by name.
CutOff_TopThree(wd, main) ==
    {m \in main :
        Cardinality({x \in main : \/ TupleGT(Order(wd, x), Order(wd, m))
                                  \/ Order(wd, x) = Order(wd, m) /\ StrLT(x, m)})
            < index_threshold}

CutOff_Strict(wd, main) ==
    LET sorted_order == SortedOrder(wd, main)
    IN  IF Len(sorted_order) > index_threshold
        THEN {m \in main : TupleGT(Order(wd, m), sorted_order[index_threshold])}
        ELSE main

\* Mutant of CutOff: the candidates at or under the threshold are kept.
CutOff_Inverted(wd, main) ==
    LET sorted_order == SortedOrder(wd, main)
    IN  IF Len(sorted_order) > index_threshold
        THEN {m \in main : TupleGE(sorted_order[index_threshold], Order(wd, m))}
        ELSE main

\* Mutant of CutOff: the threshold is the key after the index_threshold-th.
CutOff_FourKeys(wd, main) ==
    LET sorted_order == SortedOrder(wd, main)
    IN  IF Len(sorted_order) > index_threshold
        THEN {m \in main : TupleGE(Order(wd, m), sorted_order[index_threshold + 1])}
        ELSE main

CutOff(wd, main) ==
    LET sorted_order == SortedOrder(wd, main)
    IN  IF Len(sorted_order) > index_threshold
        THEN {m \in main : TupleGE(Order(wd, m), sorted_order[index_threshold])}
        ELSE main

\* imdb.py, line 187: sorted(main, key=..., reverse=True) is stable, so values
\* of equal order keep the places they have in main, a set (or a list made by
\* iterating a set): every arrangement of them is a possible outcome.
RECURSIVE Sorted(_, _)
Sorted(wd, main) ==
    IF main = {} THEN {<<>>}
    ELSE UNION {{<<m>> \o t : t \in Sorted(wd, main \ {m})} :
                m \in {x \in main : \A y \in main : TupleGE(Order(wd, x), Order(wd, y))}}

\* imdb.py, lines 163-187: the tuples __merge_countries can return.
MergeCountries(wd, omdb) ==
    Sorted(wd, CutOff(wd, Narrow(wd, Candidates(wd, omdb))))

\* imdb.py, line 160: " ".join(ctr)
RECURSIVE Join(_)
Join(s) ==
    IF Len(s) <= 1 THEN s ELSE <<Head(s), " ">> \o Join(Tail(s))

\* imdb.py, lines 159-160
Store_KeepsEmpty(d, id, c) == Update(d, [k \in {id} |-> Join(c)])

Store(d, id, c) ==
    IF c # <<>> THEN Update(d, [k \in {id} |-> Join(c)]) ELSE d

\* imdb.py, lines 155-160: one iteration of the loop of get_countries.
MergeOne ==
    /\ cpc = "loop"
    /\ \E id \in pending_ids :
       \E c \in MergeCountries(wiki_data[id], omdb_data[id]) :
           /\ i' = id
           /\ ctr' = c
           /\ r' = Store(r, id, c)
           /\ pending_ids' = pending_ids \ {id}
    /\ UNCHANGED <<ids, wiki_data, omdb_data, cpc>>
    /\ UNCHANGED fetchVars
    /\ UNCHANGED sourceVars
    /\ UNCHANGED alphaVars

\* imdb.py, line 161
ReturnCountries ==
    /\ cpc = "loop"
    /\ pending_ids = {}
    /\ cpc' = "returned"
    /\ UNCHANGED <<ids, wiki_data, omdb_data, pending_ids, i, ctr, r>>
    /\ UNCHANGED fetchVars
    /\ UNCHANGED sourceVars
    /\ UNCHANGED alphaVars

NextCountries == MergeOne \/ ReturnCountries

\* get_countries is not running.
NoBatch ==
    /\ ids = {}
    /\ wiki_data = EmptyDict
    /\ omdb_data = EmptyDict
    /\ pending_ids = {}
    /\ i = None
    /\ ctr = <<>>
    /\ r = EmptyDict
    /\ cpc = "idle"

-----------------------------------------------------------------------------
(* The two sources with a deactivation flag: FilmAffinityApi.get of          *)
(* core/filmaffinity.py, behind FilmAffinityCache, and                       *)
(* IMDBApi.get_from_omdbapi of core/imdb.py, behind functools.cache and      *)
(* Cache.  A lookup is one step: the cache decorators, the test of the flag, *)
(* the request and what the site answers to it.                              *)

MaxLookups == 4
MaxBatches == 2

\* Ids of films, as int(id) prints them in the names of the cache files.
FilmIds == {"101", "202"}
Film == "film"
Raised == "raised"

\* Mutant of Inactive: the flag is not consulted.
Inactive_NeverTested(active) == FALSE

\* filmaffinity.py, line 163 (`if not FilmAffinityApi.ACTIVE`) and imdb.py,
\* line 57 (`if not self.__omdbapi_activate`)
Inactive(active) == ~active

\* What filmaffinity.com can answer to _get_soup (lines 23-29): a page with a
\* title, a page that makes it raise FilmAffinityError, or no page at all
\* (FM_SCRAPER.get raises).
SiteAnswers == {"page", "FilmAffinityError", "ConnectionError"}

\* cache.py, lines 99-110 (StaticCache.callCache) around filmaffinity.py, lines
\* 91-100 (get), 161-170 (__get), 172-177 (__init__) and 32-36
\* (_get_html_from_id, itself behind a StaticCache).
FilmAffinityGet(id, answer) ==
    /\ ff_calls < MaxLookups
    /\ ff_calls' = ff_calls + 1
    /\ ff_id' = id
    /\ ff_batch' = ff_batch
    /\ IF id \in json_cache
       THEN /\ ff_ret' = Film
            /\ ff_requested' = FALSE
            /\ UNCHANGED <<ACTIVE, json_cache, html_cache>>
       ELSE IF id = None \/ Inactive(ACTIVE)
       THEN /\ ff_ret' = None
            /\ ff_requested' = FALSE
            /\ UNCHANGED <<ACTIVE, json_cache, html_cache>>
       ELSE IF id \in html_cache
       THEN /\ ff_ret' = Film
            /\ ff_requested' = FALSE
            /\ json_cache' = json_cache \cup {id}
            /\ UNCHANGED <<ACTIVE, html_cache>>
       ELSE /\ ff_requested' = TRUE
            /\ CASE answer = "page" ->
                      /\ ff_ret' = Film
                      /\ html_cache' = html_cache \cup {id}
                      /\ json_cache' = json_cache \cup {id}
                      /\ ACTIVE' = ACTIVE
                 [] answer = "FilmAffinityError" ->
                      /\ ff_ret' = None
                      /\ ACTIVE' = FALSE
                      /\ UNCHANGED <<json_cache, html_cache>>
                 [] OTHER ->
                      /\ ff_ret' = Raised
                      /\ UNCHANGED <<ACTIVE, json_cache, html_cache>>
    /\ UNCHANGED <<fetchVars, countryVars, omdbVars, alphaVars>>

FilmAffinityLookup ==
    \E id \in FilmIds \cup {None}, answer \in SiteAnswers : FilmAffinityGet(id, answer)

\* cache.py, lines 53-64 (tooOld): a file gets older than maxOld days, or is
\* removed.
FilmAffinityExpire ==
    /\ \E id \in FilmIds :
        \/ id \in json_cache /\ json_cache' = json_cache \ {id} /\ html_cache' = html_cache
        \/ id \in html_cache /\ html_cache' = html_cache \ {id} /\ json_cache' = json_cache
    /\ UNCHANGED <<ACTIVE, ff_batch, ff_calls, ff_id, ff_ret, ff_requested>>
    /\ UNCHANGED <<fetchVars, countryVars, omdbVars, alphaVars>>

\* complete.py, lines 145-153: the loop over film_prioridad is one batch of
\* lookups; another batch starts, in the same process.
FilmAffinityBatch ==
    /\ ff_batch < MaxBatches
    /\ ff_batch' = ff_batch + 1
    /\ UNCHANGED <<ACTIVE, json_cache, html_cache, ff_calls, ff_id, ff_ret, ff_requested>>
    /\ UNCHANGED <<fetchVars, countryVars, omdbVars, alphaVars>>

NextFilmAffinity == FilmAffinityLookup \/ FilmAffinityExpire \/ FilmAffinityBatch

\* Mutant of LimitReached: the error of the answer is not looked at.
LimitReached_Ignored(answer) == FALSE

\* imdb.py, line 71
LimitReached(answer) == answer.Error = "Request limit reached!"

OmdbIds == {"tt1", "tt2"}
Js == "js"
NoRequest == [kind |-> "no request"]
Unauthorized == 401

\* What R.get_json can give for an OMDb url (imdb.py, lines 59-76): a title, an
\* answer with Error, an answer whose Response is not true, or an HTTPError.
OmdbAnswers ==
    {[kind |-> "title"],
     [kind |-> "Error", Error |-> "Request limit reached!"],
     [kind |-> "Error", Error |-> "Incorrect IMDb ID."],
     [kind |-> "Response", Response |-> "False"],
     [kind |-> "HTTPError", code |-> Unauthorized],
     [kind |-> "HTTPError", code |-> 500]}

Memoize(memo, id, v) == [k \in DOMAIN memo \cup {id} |-> IF k = id THEN v ELSE memo[k]]

\* imdb.py, lines 80-86 (get_from_omdbapi), 54-55 (functools.cache, which keeps
\* what the call returned, None included, and nothing when it raised; Cache:
\* cache.py, lines 70-83) and 56-78 (__get_from_omdbapi).
GetFromOmdbapi(id, answer) ==
    /\ omdb_calls < MaxLookups
    /\ omdb_calls' = omdb_calls + 1
    /\ omdb_id' = id
    /\ IF id \in {None, Empty}
       THEN /\ omdb_ret' = None
            /\ omdb_answer' = NoRequest
            /\ UNCHANGED <<omdbapi_activate, omdb_memo, omdb_json>>
       ELSE IF id \in DOMAIN omdb_memo
       THEN /\ omdb_ret' = omdb_memo[id]
            /\ omdb_answer' = NoRequest
            /\ UNCHANGED <<omdbapi_activate, omdb_memo, omdb_json>>
       ELSE IF id \in omdb_json
       THEN /\ omdb_ret' = Js
            /\ omdb_answer' = NoRequest
            /\ omdb_memo' = Memoize(omdb_memo, id, Js)
            /\ UNCHANGED <<omdbapi_activate, omdb_json>>
       ELSE IF Inactive(omdbapi_activate)
       THEN /\ omdb_ret' = None
            /\ omdb_answer' = NoRequest
            /\ omdb_memo' = Memoize(omdb_memo, id, None)
            /\ UNCHANGED <<omdbapi_activate, omdb_json>>
       ELSE /\ omdb_answer' = answer
            /\ CASE answer.kind = "HTTPError" /\ answer.code # Unauthorized ->
                      /\ omdb_ret' = Raised
                      /\ UNCHANGED <<omdbapi_activate, omdb_memo, omdb_json>>
                 [] answer.kind = "HTTPError" /\ answer.code = Unauthorized ->
                      /\ omdb_ret' = None
                      /\ omdbapi_activate' = FALSE
                      /\ omdb_memo' = Memoize(omdb_memo, id, None)
                      /\ omdb_json' = omdb_json
                 [] answer.kind = "Error" ->
                      /\ omdb_ret' = None
                      /\ omdbapi_activate' =
                            IF LimitReached(answer) THEN FALSE ELSE omdbapi_activate
                      /\ omdb_memo' = Memoize(omdb_memo, id, None)
                      /\ omdb_json' = omdb_json
                 [] answer.kind = "Response" ->
                      /\ omdb_ret' = None
                      /\ omdb_memo' = Memoize(omdb_memo, id, None)
                      /\ UNCHANGED <<omdbapi_activate, omdb_json>>
                 [] OTHER ->
                      /\ omdb_ret' = Js
                      /\ omdb_memo' = Memoize(omdb_memo, id, Js)
                      /\ omdb_json' = omdb_json \cup {id}
                      /\ omdbapi_activate' = omdbapi_activate
    /\ UNCHANGED <<fetchVars, countryVars, filmaffinityVars, alphaVars>>

OmdbLookup ==
    \E id \in OmdbIds \cup {None, Empty}, answer \in OmdbAnswers : GetFromOmdbapi(id, answer)

\* cache.py, lines 53-64 (tooOld): out/omdb/{id}.json gets older than 90 days,
\* or is removed.
OmdbExpire ==
    /\ \E id \in omdb_json : omdb_json' = omdb_json \ {id}
    /\ UNCHANGED <<omdbapi_activate, omdb_memo, omdb_calls, omdb_id, omdb_ret, omdb_answer>>
    /\ UNCHANGED <<fetchVars, countryVars, filmaffinityVars, alphaVars>>

NextOmdb == OmdbLookup \/ OmdbExpire

\* No lookup was made: the flags are as the classes set them (filmaffinity.py,
\* line 89; imdb.py, line 33), nothing is cached in the process.
NoFilmAffinityLookup ==
    /\ ACTIVE = TRUE
    /\ ff_batch = 1
    /\ ff_calls = 0
    /\ ff_id = None
    /\ ff_ret = None
    /\ ff_requested = FALSE

NoOmdbLookup ==
    /\ omdbapi_activate = TRUE
    /\ omdb_memo = EmptyDict
    /\ omdb_calls = 0
    /\ omdb_id = None
    /\ omdb_ret = None
    /\ omdb_answer = NoRequest

NoLookup ==
    /\ NoFilmAffinityLookup
    /\ json_cache = {}
    /\ html_cache = {}
    /\ NoOmdbLookup
    /\ omdb_json = {}

-----------------------------------------------------------------------------
(* WikiApi.get_alpha3 of core/wiki.py: the alpha-3 code of Wikidata items,   *)
(* from four properties tried in turn.  A step is one turn of its loop: the  *)
(* call of the wrapped get_dict_uniq_tuple for the keys that are left, and   *)
(* _get_dict on what it returned.                                            *)

AlphaKeys == {"wd:Q29", "wd:Q142"}

\* wiki.py, lines 375-380
ValFields == <<"wdt:P298", "p:P298/ps:P298", "wdt:P984", "wdt:P11897">>

\* The values a property can have for an item, as Wikidata gives them: one
\* code and a text that is no code, two writings of one code, two codes.
Statements == {{"FRA", "N/A"}, {"ES", "ESP"}, {"ESP", "FRA"}, {"N/A"}}

\* country.py, lines 34-45 and 56-68 (CountryFinder.parse_alpha3), on the
\* texts of Statements: 'N/A' is no code (line 57), an alpha-2 code gives its
\* alpha-3 code (lines 36-39), an alpha-3 code of a country gives itself.
ParseAlpha3(cod) ==
    CASE cod = "N/A" -> None
      [] cod = "ES" -> "ESP"
      [] OTHER -> cod

\* wiki.py, lines 367-369: set(map(CF.parse_alpha3, v)), None discarded
SetV(v) == {ParseAlpha3(cod) : cod \in v} \ {None}

\* wiki.py, lines 364-371 (_get_dict) on what get_dict_uniq_tuple returned
GetDict(got) ==
    [k \in {x \in DOMAIN got : Cardinality(SetV(got[x])) = 1}
        |-> CHOOSE c \in SetV(got[k]) : TRUE]

\* Mutant of StillUndone: the keys that are done are sent again.
StillUndone_KeepsDone(keys, d) == keys

\* wiki.py, line 381: undone.difference_update(done.keys())
StillUndone(keys, d) == keys \ DOMAIN d

\* wiki.py, lines 375-382: one turn of the loop.  The wrapped
\* get_dict_uniq_tuple returns values for some of the keys it was given, those
\* for which the property has values and whose chunk did not fail to the end,
\* or raises.
TryValField ==
    /\ alpha_pc = "loop"
    /\ val_field < Len(ValFields)
    /\ val_field' = val_field + 1
    /\ alpha_undone' = StillUndone(alpha_undone, done)
    /\ alpha_args' = alpha_args
    /\ \/ \E S \in SUBSET alpha_undone' : \E got \in [S -> Statements] :
            /\ alpha_got' = got
            /\ done' = Update(done, GetDict(got))
            /\ alpha_pc' = alpha_pc
       \/ /\ alpha_undone' # {}
          /\ alpha_got' = EmptyDict
          /\ done' = done
          /\ alpha_pc' = "raised"
    /\ UNCHANGED <<fetchVars, countryVars, sourceVars>>

\* wiki.py, line 383
ReturnAlpha3 ==
    /\ alpha_pc = "loop"
    /\ val_field = Len(ValFields)
    /\ alpha_pc' = "returned"
    /\ UNCHANGED <<alpha_args, val_field, alpha_undone, alpha_got, done>>
    /\ UNCHANGED <<fetchVars, countryVars, sourceVars>>

NextAlpha3 == TryValField \/ ReturnAlpha3

\* wiki.py, lines 373-374, for the keys rgs
EnterAlpha3(rgs) ==
    /\ alpha_args = rgs
    /\ alpha_pc = "loop"
    /\ val_field = 0
    /\ alpha_undone = rgs
    /\ alpha_got = EmptyDict
    /\ done = EmptyDict

\* get_alpha3 is not running.
NoAlpha3 ==
    /\ alpha_args = {}
    /\ alpha_pc = "returned"
    /\ val_field = Len(ValFields)
    /\ alpha_undone = {}
    /\ alpha_got = EmptyDict
    /\ done = EmptyDict

-----------------------------------------------------------------------------
(* Specifications. *)

InitCall ==
    /\ internal_cache = EmptyDict
    /\ pc = "idle"
    /\ calls = 0
    /\ args = {}
    /\ kw = "o1"
    /\ undone = {}
    /\ result = EmptyDict
    /\ error_query = EmptyDict
    /\ observed = EmptyDict
    /\ count = 0
    /\ tries = 0
    /\ cur_chunk_size = chunk_size
    /\ todo = {}
    /\ chunk = {}
    /\ fetched = EmptyDict
    /\ e = NoError
    /\ now = 0
    /\ until = 0
    /\ call_end = 0
    /\ repeat = FALSE

\* Any caller and any remote source, over two keys: every set of keys and
\* non-keys as *args; every answer, also for keys that were not asked; every
\* failure.
Init ==
    /\ universe = [keys |-> Keys, argsets |-> SUBSET (Keys \cup {None, Empty}),
                   vals |-> Vals, falsy |-> {Falsy}, opts |-> Opts, calls |-> MaxCalls,
                   codes |-> {RateLimited, 0} \cup OtherCodes, foreign |-> TRUE,
                   malformed |-> TRUE, det |-> FALSE, truth |-> EmptyDict, history |-> FALSE,
                   wikidata |-> NoWikidata]
    /\ chunk_size \in 1..MaxChunkSize
    /\ memo_enabled = TRUE
    /\ InitCall
    /\ NoBatch
    /\ NoAlpha3
    /\ NoLookup

Spec == Init /\ [][Next]_vars

\* One call for six keys with a chunk size of up to MaxBigChunkSize, a source
\* that answers, with one value, only for keys it was asked: the chunk-size
\* schedule over rounds whose pending set is larger than 3.
InitChunks ==
    /\ universe = [keys |-> BigKeys, argsets |-> {BigKeys},
                   vals |-> {"a"}, falsy |-> {}, opts |-> Opts, calls |-> 1,
                   codes |-> OtherCodes, foreign |-> FALSE,
                   malformed |-> TRUE, det |-> FALSE, truth |-> EmptyDict, history |-> FALSE,
                   wikidata |-> NoWikidata]
    /\ chunk_size \in 1..MaxBigChunkSize
    /\ memo_enabled = TRUE
    /\ InitCall
    /\ NoBatch
    /\ NoAlpha3
    /\ NoLookup

SpecChunks == InitChunks /\ [][Next]_vars

\* A source whose answer for each key is fixed (truth) and that never fails,
\* called with internal_cache in use and with internal_cache always empty.
InitDet ==
    /\ \E S \in SUBSET Keys : \E t \in [S -> Vals] :
          universe = [keys |-> Keys, argsets |-> SUBSET (Keys \cup {None, Empty}),
                      vals |-> Vals, falsy |-> {Falsy}, opts |-> Opts, calls |-> MaxCalls,
                      codes |-> {}, foreign |-> FALSE,
                      malformed |-> FALSE, det |-> TRUE, truth |-> t, history |-> FALSE,
                   wikidata |-> NoWikidata]
    /\ chunk_size \in 1..MaxChunkSize
    /\ memo_enabled \in BOOLEAN
    /\ InitCall
    /\ NoBatch
    /\ NoAlpha3
    /\ NoLookup

\* Calls of one operation with either of two kwargs, for two keys and a source
\* that answers, with one value, only for the keys it was asked.
InitOpts ==
    /\ universe = [keys |-> Keys, argsets |-> SUBSET Keys \ {{}},
                   vals |-> {"a"}, falsy |-> {}, opts |-> TwoOpts, calls |-> MaxCalls,
                   codes |-> OtherCodes, foreign |-> FALSE,
                   malformed |-> TRUE, det |-> FALSE, truth |-> EmptyDict, history |-> FALSE,
                   wikidata |-> NoWikidata]
    /\ chunk_size \in 1..MaxChunkSize
    /\ memo_enabled = TRUE
    /\ InitCall
    /\ NoBatch
    /\ NoAlpha3
    /\ NoLookup

SpecOpts == InitOpts /\ [][Next]_vars

\* One call for three keys, with a source that fails with either of two status
\* codes or with a rate limit, and the history of the failures.
InitDiag ==
    /\ universe = [keys |-> ThreeKeys, argsets |-> {ThreeKeys},
                   vals |-> {"a"}, falsy |-> {}, opts |-> Opts, calls |-> 1,
                   codes |-> {RateLimited} \cup TwoCodes, foreign |-> FALSE,
                   malformed |-> TRUE, det |-> FALSE, truth |-> EmptyDict,
                   history |-> TRUE,
                   wikidata |-> NoWikidata]
    /\ chunk_size \in 1..MaxDiagChunkSize
    /\ memo_enabled = TRUE
    /\ InitCall
    /\ NoBatch
    /\ NoAlpha3
    /\ NoLookup

SpecDiag == InitDiag /\ [][Next]_vars

NextDet == Call \/ RoundStart \/ Return \/ ChunkOk

SpecDet == InitDet /\ [][NextDet]_vars

\* The contributors of a title: the (role, country) pairs that occur and those
\* that occur twice, at most n mentions in all, over the countries C.
Contributors(C, n) ==
    UNION {{<<M, D>> : D \in {T \in SUBSET M : Cardinality(M) + Cardinality(T) <= n}} :
           M \in {S \in SUBSET (Roles \X C) : Cardinality(S) <= n}}

\* What the two sources give for one title: the record of WikiApi.get_countries
\* and the tuple of IMDBApi.__get_countries.
Evidence(mains, omdbs, langs, C, n) ==
    {[wd |-> WikiImdbCountry(mn, md[1], md[2], lg), om |-> om] :
        mn \in mains, om \in omdbs, lg \in langs, md \in Contributors(C, n)}

\* Every way the two sources and the languages can overlap over three countries.
FusionEvidence ==
    Evidence(SUBSET FewCountries, SUBSET FewCountries, SUBSET FewCountries,
             FewCountries, MaxMentions - 2)

\* Three or four candidates and every ranking of them by up to MaxMentions
\* contributors.
RankingEvidence ==
    Evidence({S \in SUBSET Countries : Cardinality(S) >= index_threshold}, {{}},
             {{}, Countries}, Countries, MaxMentions)

\* The titles of a batch of two.
BatchEvidence ==
    Evidence(SUBSET TwoCountries, SUBSET TwoCountries, {{}}, TwoCountries, 0)

\* Two producers and one director of the USA, one director of France; nothing
\* else is known of the title.
WeightEvidence ==
    [wd |-> WikiImdbCountry({}, {<<"producer", "USA">>, <<"director", "USA">>,
                                 <<"director", "FRA">>},
                            {<<"producer", "USA">>}, {}),
     om |-> {}]

\* Six candidates, each of another order.
SixEvidence ==
    [wd |-> WikiImdbCountry(SixCountries,
                            {<<"producer", "USA">>, <<"producer", "GBR">>,
                             <<"director", "FRA">>, <<"writer", "ESP">>,
                             <<"casting", "ITA">>},
                            {<<"producer", "USA">>}, {}),
     om |-> {}]

\* Six candidates of four orders: two of them share the third.
TieEvidence ==
    [wd |-> WikiImdbCountry(SixCountries,
                            {<<"producer", "USA">>, <<"producer", "GBR">>,
                             <<"director", "FRA">>, <<"director", "ESP">>},
                            {<<"producer", "USA">>}, {}),
     om |-> {}]

\* get_countries for one title with any evidence, or for two titles, at line
\* 155: wiki_data has a record for every id (wiki.py, lines 409-422).
InitCountries ==
    /\ universe = [keys |-> Keys, argsets |-> {}, vals |-> Vals, falsy |-> {Falsy},
                   opts |-> Opts, calls |-> 0, codes |-> {}, foreign |-> FALSE,
                   malformed |-> FALSE, det |-> FALSE, truth |-> EmptyDict, history |-> FALSE,
                   wikidata |-> NoWikidata]
    /\ chunk_size = 1
    /\ memo_enabled = TRUE
    /\ InitCall
    /\ \/ \E ev \in FusionEvidence \cup RankingEvidence \cup {WeightEvidence, SixEvidence, TieEvidence} :
            /\ ids = {"tt1"}
            /\ wiki_data = [k \in {"tt1"} |-> ev.wd]
            /\ omdb_data = [k \in {"tt1"} |-> ev.om]
       \/ \E ev \in [Keys -> BatchEvidence] :
            /\ ids = Keys
            /\ wiki_data = [k \in Keys |-> ev[k].wd]
            /\ omdb_data = [k \in Keys |-> ev[k].om]
    /\ pending_ids = ids
    /\ i = None
    /\ ctr = <<>>
    /\ r = EmptyDict
    /\ cpc = "loop"
    /\ NoLookup
    /\ NoAlpha3

SpecCountries == InitCountries /\ [][NextCountries]_vars

\* get_dict_1_to_1 (and get_wiki_url, which ends by the same
\* __get_dict_1_to_1) over any statements of Wikidata on two keys and two
\* values, with any chunk size and any failures.
InitOneToOne ==
    /\ \E W \in SUBSET (Keys \X Vals) :
          universe = [keys |-> Keys, argsets |-> SUBSET Keys \ {{}}, vals |-> Vals,
                      falsy |-> {}, opts |-> Opts, calls |-> MaxCalls,
                      codes |-> {RateLimited} \cup OtherCodes, foreign |-> FALSE,
                      malformed |-> TRUE, det |-> FALSE, truth |-> EmptyDict,
                      history |-> FALSE, wikidata |-> W]
    /\ chunk_size \in 1..MaxChunkSize
    /\ memo_enabled = TRUE
    /\ InitCall
    /\ NoBatch
    /\ NoAlpha3
    /\ NoLookup

SpecOneToOne == InitOneToOne /\ [][Next]_vars

\* The wrapper, get_countries and get_alpha3 are not running.
NoFetch ==
    /\ universe = [keys |-> Keys, argsets |-> {}, vals |-> Vals, falsy |-> {Falsy},
                   opts |-> Opts, calls |-> 0, codes |-> {}, foreign |-> FALSE,
                   malformed |-> FALSE, det |-> FALSE, truth |-> EmptyDict, history |-> FALSE,
                   wikidata |-> NoWikidata]
    /\ chunk_size = 1
    /\ memo_enabled = TRUE
    /\ InitCall
    /\ NoBatch
    /\ NoAlpha3

\* A process that starts with any files in out/filmaffinity and
\* cache/filmaffinity, kept by earlier runs.
InitFilmAffinity ==
    /\ NoFetch
    /\ NoFilmAffinityLookup
    /\ json_cache \in SUBSET FilmIds
    /\ html_cache \in SUBSET FilmIds
    /\ NoOmdbLookup
    /\ omdb_json = {}

SpecFilmAffinity == InitFilmAffinity /\ [][NextFilmAffinity]_vars

\* A process that starts with any files in out/omdb.
InitOmdb ==
    /\ NoFetch
    /\ NoFilmAffinityLookup
    /\ json_cache = {}
    /\ html_cache = {}
    /\ NoOmdbLookup
    /\ omdb_json \in SUBSET OmdbIds

SpecOmdb == InitOmdb /\ [][NextOmdb]_vars

\* get_alpha3 called for any of two items.
InitAlpha3 ==
    /\ universe = [keys |-> Keys, argsets |-> {}, vals |-> Vals, falsy |-> {Falsy},
                   opts |-> Opts, calls |-> 0, codes |-> {}, foreign |-> FALSE,
                   malformed |-> FALSE, det |-> FALSE, truth |-> EmptyDict, history |-> FALSE,
                   wikidata |-> NoWikidata]
    /\ chunk_size = 1
    /\ memo_enabled = TRUE
    /\ InitCall
    /\ NoBatch
    /\ NoLookup
    /\ \E rgs \in SUBSET AlphaKeys : EnterAlpha3(rgs)

SpecAlpha3 == InitAlpha3 /\ [][NextAlpha3]_vars

-----------------------------------------------------------------------------
(* Claims. *)

Ended == pc \in {"returned", "raised"}

InCall == pc \in {"loop", "chunks"}

\* C1: a call never raises because a chunk's remote query failed: after a chunk
\* whose query failed upstream (an HTTP error, a rate limit, a response of an
\* unexpected shape) the call goes on and returns a mapping.
C1_UpstreamFailureAbsorbed ==
    (count > 0 /\ e.type \in {"WikiError", "TypeError"}) => pc # "raised"

\* The measure that every step of a call decreases.
Rank ==
    2 * ((MaxTries - tries) * (Cardinality(universe.keys) + 1) + Cardinality(todo))
    + (IF pc = "loop" THEN 1 ELSE 0)

\* C2: the loop terminates whatever func does: at most 3 rounds are started,
\* the first one whenever a key is pending, every step of a call decreases a
\* natural number, a call that has not ended can take a step, and a key enters
\* the mapping only when func gave a truthy value for it, so a key that never
\* succeeds is absent from what is returned.
C2_Termination ==
    /\ [](tries <= MaxTries /\ (InCall => Rank >= 0) /\ (pc = "chunks" => todo # {}))
    /\ [][InCall /\ InCall' => Rank' < Rank]_vars
    /\ [][(pc = "loop" /\ tries = 0 /\ undone # {}) => (pc' = "chunks" /\ tries' = 1)]_vars
    /\ [][pc' # "raised" =>
            \A k \in DOMAIN result' :
                (calls' = calls /\ k \in DOMAIN result) \/ k \in DOMAIN fetched']_vars

\* C2 witness: a call returned after its third round with a key still pending.
C2_Witness ==
    pc = "returned" /\ tries = MaxTries /\ undone # {} /\ undone \cap DOMAIN result = {}

\* C3: a call that repeats, with the same kwargs and keys, a call that resolved
\* every key makes no call of func and returns every key with the value
\* resolved before.
C3_Idempotence ==
    (repeat /\ Ended) =>
        /\ pc = "returned"
        /\ count = 0
        /\ \A k \in args \ {None, Empty} :
              k \in DOMAIN result /\ result[k] = Get(internal_cache, <<KeyCache(kw), k>>)

\* C4: within a call, a key that is in result is never sent to func again and
\* its value in result never changes.
C4_FirstSuccessWins ==
    [][calls' = calls =>
          /\ \A k \in DOMAIN result : k \in DOMAIN result' /\ result'[k] = result[k]
          /\ (count' = count + 1 => chunk' \cap DOMAIN result = {})]_vars

\* C5: no key is both pending and in result.
C5_PendingResultDisjoint == undone \cap DOMAIN result = {}

\* C5 witness: between two chunks, some keys resolved and some pending.
C5_Witness == pc = "chunks" /\ DOMAIN result # {} /\ undone # {}

\* C6: None and '' are never pending, sent or returned; a call whose *args hold
\* no other key returns the empty mapping without a call of func, and entering
\* it leaves internal_cache as it was.
C6_DropEmptyKeys ==
    /\ [](/\ {None, Empty} \cap (undone \cup chunk \cup DOMAIN result) = {}
          /\ (calls > 0 /\ args \subseteq {None, Empty}) =>
                (pc = "returned" /\ result = EmptyDict /\ count = 0))
    /\ [][(calls' = calls + 1 /\ args' \subseteq {None, Empty}) =>
             internal_cache' = internal_cache]_vars

\* C6 witness: a call with only non-keys returned.
C6_Witness == pc = "returned" /\ args # {} /\ args \subseteq {None, Empty}

\* C7: a call ends no later than the budget plus the duration of one chunk call
\* after it was entered.
C7_BoundedResponse == Ended => now <= Budget + CallDur

\* C8: when the next chunk is about to be sent and the last chunk failed with a
\* WikiError, at least the cooldown has passed since that call ended if its
\* http_code was 429, and nothing but the pause between rounds if it was not.
C8_RateLimitPause ==
    (pc = "chunks" /\ e.type = "WikiError") =>
        IF e.http_code = RateLimited
        THEN now - call_end >= Cooldown
        ELSE now - call_end \in {0, Pause}

\* C8 witness: a chunk is about to be sent after a rate-limited one.
C8_Witness ==
    pc = "chunks" /\ count > 0 /\ e.type = "WikiError" /\ e.http_code = RateLimited

\* C9: the chunk size is at least 1, and from a round to the next it strictly
\* decreases, or stays 1.
C9_ChunkSizeDecreases ==
    /\ [](cur_chunk_size >= 1)
    /\ [][(tries' = tries + 1 /\ tries >= 1) =>
             (cur_chunk_size' < cur_chunk_size
              \/ (cur_chunk_size = 1 /\ cur_chunk_size' = 1))]_vars

\* C9 witness: a second round with a chunk size above 1, below the first's.
C9_Witness == tries = 2 /\ cur_chunk_size > 1 /\ cur_chunk_size < chunk_size

\* What a call gives when internal_cache is always empty and func answers
\* universe.truth: the truth for the keys asked.
NoMemoResult ==
    Restrict(universe.truth, (args \ {None, Empty}) \cap DOMAIN universe.truth)

\* How a call ends when internal_cache is always empty: it has NoMemoResult as
\* result, and returns it unless it has keys and its log line raises.
NoMemoOutcome ==
    /\ result = NoMemoResult
    /\ IF DropEmpty(args) # {} /\ LogLineRaises(args)
       THEN pc = "raised" /\ e = LogLineError
       ELSE pc = "returned"

\* With internal_cache always empty every call ends as NoMemoOutcome says.
NoMemoBaseline == (~memo_enabled /\ Ended) => NoMemoOutcome

\* C10: with a deterministic func, every call with internal_cache in use ends
\* as it does with internal_cache always empty, with the same mapping.
C10_MemoIsPureOptimization == (memo_enabled /\ Ended) => NoMemoOutcome

-----------------------------------------------------------------------------
(* Claims on the country reconciliation. *)

\* An iteration of get_countries has run: i, ctr are those of the last one.
Merged == i # None

lastWd == wiki_data[i]

lastOm == omdb_data[i]

Returned == {ctr[k] : k \in DOMAIN ctr}

\* The candidates the cutoff is given.
Cand == Narrow(lastWd, Candidates(lastWd, lastOm))

CandKeys == {Order(lastWd, m) : m \in Cand}

\* C11: the tuple __merge_countries returns is ordered by RankKey, descending,
\* and values of the same RankKey stand in the natural order of the values,
\* whatever the iteration order of the candidate set.
C11_DeterministicOrder ==
    Merged =>
        \A a, b \in DOMAIN ctr :
            a < b => \/ TupleGT(Order(lastWd, ctr[a]), Order(lastWd, ctr[b]))
                     \/ /\ Order(lastWd, ctr[a]) = Order(lastWd, ctr[b])
                        /\ StrLT(ctr[a], ctr[b])

\* C12: when wd.main and omdb are both non-empty and share a value, every
\* value returned is a value of both.
C12_IntersectionFirst ==
    Merged /\ lastWd.main # {} /\ lastOm # {} /\ lastWd.main \cap lastOm # {}
        => Returned \subseteq lastWd.main \cap lastOm

C12_Witness ==
    /\ Merged
    /\ lastWd.main \cap lastOm # {}
    /\ lastWd.main \ lastOm # {}
    /\ lastOm \ lastWd.main # {}
    /\ ctr # <<>>

\* C13: when wd.main and omdb are both non-empty and share no value, the
\* candidate set before the language narrowing and the cutoff is their union:
\* no value of either is dropped (so all of them are returned when there is
\* no language evidence and the union is not larger than the threshold).
C13_UnionFallback ==
    Merged /\ lastWd.main # {} /\ lastOm # {} /\ lastWd.main \cap lastOm = {}
        => /\ Candidates(lastWd, lastOm) = lastWd.main \cup lastOm
           /\ lastWd.country_lang = {}
                  /\ Cardinality(lastWd.main \cup lastOm) <= index_threshold
              => Returned = lastWd.main \cup lastOm

\* C14: when exactly one of wd.main and omdb is non-empty, has at most 3
\* values, and there is no language evidence, the values returned are exactly
\* those of the non-empty source, each once.
C14_SingleSource ==
    /\ Merged
    /\ (lastWd.main = {}) # (lastOm = {})
    /\ Cardinality(lastWd.main \cup lastOm) <= index_threshold
    /\ lastWd.country_lang = {}
    => /\ Returned = lastWd.main \cup lastOm
       /\ Len(ctr) = Cardinality(Returned)

C14_Witness ==
    /\ Merged
    /\ lastOm = {}
    /\ Cardinality(lastWd.main) >= 2
    /\ lastWd.country_lang = {}
    /\ Returned = lastWd.main

\* The RankKey of the n-th candidate when the candidates are ranked by
\* RankKey, descending.
NthCandidateKey(n) ==
    CHOOSE k \in CandKeys :
        /\ Cardinality({m \in Cand : TupleGT(Order(lastWd, m), k)}) < n
        /\ Cardinality({m \in Cand : TupleGE(Order(lastWd, m), k)}) >= n

\* The n-th largest of the distinct RankKeys of the candidates.
NthDistinctKey(n) ==
    CHOOSE k \in CandKeys : Cardinality({j \in CandKeys : TupleGT(j, k)}) = n - 1

\* C15 as stated: when there are more than 3 candidates, exactly the candidates
\* whose RankKey is at least that of the 3rd candidate of the descending
\* ranking are returned; candidates of pairwise distinct RankKeys, more than 3,
\* give exactly 3 values.
C15_CutoffAtThirdCandidate ==
    Merged /\ Cardinality(Cand) > index_threshold
        => /\ Returned = {m \in Cand :
                            TupleGE(Order(lastWd, m), NthCandidateKey(index_threshold))}
           /\ Cardinality(CandKeys) = Cardinality(Cand) => Len(ctr) = index_threshold

\* C15, amended: when the candidates have more than 3 distinct RankKeys,
\* exactly the candidates whose RankKey is at least the 3rd largest distinct
\* RankKey are returned, and otherwise all the candidates are; candidates of
\* pairwise distinct RankKeys, more than 3, give exactly 3 values.
C15_CutoffAtThirdKey ==
    Merged =>
        /\ Cardinality(CandKeys) > index_threshold
              => Returned = {m \in Cand :
                               TupleGE(Order(lastWd, m), NthDistinctKey(index_threshold))}
        /\ Cardinality(CandKeys) <= index_threshold => Returned = Cand
        /\ Cardinality(Cand) > index_threshold /\ Cardinality(CandKeys) = Cardinality(Cand)
              => Len(ctr) = index_threshold

C15_Witness ==
    /\ Merged
    /\ Cardinality(CandKeys) > index_threshold
    /\ Cardinality(CandKeys) < Cardinality(Cand)
    /\ Len(ctr) > index_threshold
    /\ Returned # Cand

\* C16: when there are at most 3 candidates, every candidate is returned.
C16_SmallSetKept ==
    Merged /\ Cardinality(Cand) <= index_threshold => Returned = Cand

C16_Witness ==
    /\ Merged
    /\ Cardinality(Cand) = index_threshold
    /\ Cardinality(CandKeys) = index_threshold
    /\ Returned = Cand

\* C17: for a title with two producers and one director of the USA and one
\* director of France, no other evidence and no OMDb countries, the tuple
\* returned is (USA).
C17_WeightWins ==
    Merged /\ lastWd = WeightEvidence.wd /\ lastOm = WeightEvidence.om
        => ctr = <<"USA">>

\* C18: a title without candidates gives the empty tuple and is left out of
\* the mapping get_countries returns; the other titles of the batch are in it,
\* and the batch returns.
C18_NoCandidateLeftOut ==
    /\ Merged /\ lastWd.main \cup lastOm = {} => ctr = <<>>
    /\ \A id \in ids \ pending_ids :
          id \in DOMAIN r <=> wiki_data[id].main \cup omdb_data[id] # {}
    /\ cpc = "returned" => pending_ids = {}
    /\ DOMAIN r \subseteq ids

C18_Witness ==
    /\ cpc = "returned"
    /\ ids = Keys
    /\ Cardinality(DOMAIN r) = 1
    /\ \E id \in ids : wiki_data[id].main \cup omdb_data[id] = {}

-----------------------------------------------------------------------------
(* Claims on the batch-fetch engine, continued. *)

\* C19: only truthy values are merged.  A pending key for which a call of func
\* that returned gave no entry or a falsy value is not put in result nor in
\* internal_cache and stays pending; every round sends all the keys pending
\* at its start; a call that returns with a key pending has run its 3 rounds or
\* passed its deadline, and the key is not in the mapping it returns.
C19_FalsyStaysPending ==
    /\ [](/\ \A k \in DOMAIN result : result[k] \in universe.vals
          /\ \A x \in DOMAIN internal_cache : internal_cache[x] \in universe.vals
          /\ pc = "loop" => todo = {}
          /\ (pc = "returned" /\ undone # {}) =>
                /\ tries = MaxTries \/ (tries >= 1 /\ now >= until)
                /\ undone \cap DOMAIN result = {})
    /\ [][(count' = count + 1 /\ e'.type \in {"none", "KeyError"}) =>
             \A k \in undone \ DOMAIN fetched' :
                 /\ k \in undone'
                 /\ k \notin DOMAIN result'
                 /\ Get(internal_cache', <<KeyCache(kw), k>>)
                        = Get(internal_cache, <<KeyCache(kw), k>>)]_vars
    /\ [][tries' = tries + 1 => todo' = undone]_vars
    /\ [][count' = count + 1 => chunk' \subseteq todo /\ todo' = todo \ chunk']_vars

\* C19 witness: a call returned after three rounds, func having answered
\* nothing truthy in the last, with a key still pending.
C19_Witness ==
    /\ pc = "returned"
    /\ tries = MaxTries
    /\ e.type = "none"
    /\ fetched = EmptyDict
    /\ undone # {}

\* C20: a chunk whose call fails with a WikiError that is not a rate limit
\* changes neither result, internal_cache nor the pending set, costs no sleep,
\* and the round goes on with the next chunk until none is left; a pending key
\* stays pending until it is resolved, and every round sends all the keys
\* pending at its start, those of the failed chunk among them.
C20_FailedChunkRetried ==
    /\ [][(count' = count + 1 /\ e'.type = "WikiError" /\ e'.http_code # RateLimited) =>
             /\ result' = result
             /\ internal_cache' = internal_cache
             /\ undone' = undone
             /\ now' = call_end'
             /\ pc' = IF todo' = {} THEN "loop" ELSE "chunks"]_vars
    /\ [](pc = "chunks" <=> (InCall /\ todo # {}))
    /\ [][calls' = calls =>
             \A k \in undone : k \in undone' \/ k \in DOMAIN result']_vars
    /\ [][tries' = tries + 1 => todo' = undone' /\ undone' = undone]_vars

\* C20 witness: a chunk has just failed with a status that is not a rate limit,
\* its keys are pending, and the round has chunks left.
C20_Witness ==
    /\ pc = "chunks"
    /\ e.type = "WikiError"
    /\ e.http_code \in OtherCodes
    /\ chunk # {}
    /\ chunk \cap todo = {}
    /\ chunk \subseteq undone

-----------------------------------------------------------------------------
(* Claims on the batch-fetch engine: rounds, chunks, memo, diagnostics. *)

\* C21: the first round uses the configured chunk size and starts without a
\* pause; every later round starts with a pause of 5 and with a chunk size of
\* max(1, min(previous chunk size, number of pending keys) div 3).
C21_ChunkSizeSchedule ==
    /\ [](tries <= 1 => cur_chunk_size = chunk_size)
    /\ [][tries' = tries + 1 =>
             IF tries = 0
             THEN cur_chunk_size' = chunk_size /\ now' = now
             ELSE /\ now' = now + Pause
                  /\ LET least == IF cur_chunk_size <= Cardinality(undone)
                                  THEN cur_chunk_size ELSE Cardinality(undone)
                     IN  cur_chunk_size' = IF least \div 3 >= 1 THEN least \div 3 ELSE 1]_vars

\* C21 witness: a second round has started with fewer keys pending than the
\* chunk size of the first, and a chunk size above 1.
C21_Witness ==
    /\ tries = 2
    /\ todo = undone
    /\ Cardinality(undone) < chunk_size
    /\ cur_chunk_size > 1
    /\ cur_chunk_size = Cardinality(undone) \div 3

\* C22: the chunks of a round partition the keys pending at its start: the
\* round starts with all of them to send, every chunk is a non-empty set of keys
\* still to send, of exactly the current chunk size unless it is the last, a
\* key sent is not to send any more, and the round is over only when none is
\* left.
C22_ChunksPartitionPending ==
    /\ [][tries' = tries + 1 => todo' = undone /\ undone' = undone]_vars
    /\ [][count' = count + 1 =>
             /\ chunk' # {}
             /\ chunk' \subseteq todo
             /\ todo' = todo \ chunk'
             /\ \/ Cardinality(chunk') = cur_chunk_size
                \/ Cardinality(chunk') < cur_chunk_size /\ todo' = {}
             /\ pc' = "loop" => todo' = {}]_vars
    /\ [][count' = count /\ tries' = tries /\ calls' = calls => todo' = todo]_vars
    /\ [](pc = "loop" => todo = {})

\* C22 witness: a round of two chunks is over, the last one shorter.
C22_Witness ==
    /\ pc = "loop"
    /\ tries = 1
    /\ count = 2
    /\ Cardinality(chunk) < cur_chunk_size
    /\ todo = {}

\* C23: internal_cache is keyed by the operation, the kwargs and the key.  A
\* call writes only entries of its own kwargs; at its entry only keys that
\* have an entry of its own kwargs are taken out of the pending set or put in
\* result; and when no key of the call has one, whatever other kwargs resolved,
\* every key is pending and the first round is to send them all.
C23_MemoKeyedByOptions ==
    /\ [][\A x \in DOMAIN internal_cache' :
             \/ x \in DOMAIN internal_cache /\ internal_cache'[x] = internal_cache[x]
             \/ x[1] = <<"func", kw'>> /\ calls' = calls]_vars
    /\ [][calls' = calls + 1 =>
             LET keys == args' \ {None, Empty}
                 known == {k \in keys : <<<<"func", kw'>>, k>> \in DOMAIN internal_cache}
             IN  /\ (keys \ undone') \cup DOMAIN result' \subseteq known
                 /\ (known = {} /\ keys # {}) =>
                       (pc' = "loop" /\ undone' = keys /\ result' = EmptyDict /\ tries' = 0)]_vars
    /\ [][(pc = "loop" /\ tries = 0 /\ undone # {}) => (pc' = "chunks" /\ todo' = undone)]_vars

\* C23 witness: a call is sending a key that has an entry of other kwargs, and
\* none of its own.
C23_Witness ==
    /\ pc = "chunks"
    /\ tries = 1
    /\ \E k \in todo, o \in universe.opts :
          /\ o # kw
          /\ <<<<"func", o>>, k>> \in DOMAIN internal_cache
          /\ <<<<"func", kw>>, k>> \notin DOMAIN internal_cache

\* C24 as stated: when a call returns, error_query (what lines 139-140 report)
\* has, for every status code other than 429 with which a chunk of any round of
\* the call failed, the shortest of the queries that failed with it.
C24_DiagnosticsOfTheCall == pc = "returned" => error_query = observed

\* C24, amended: when a call returns, error_query has, for every status code
\* other than 429 with which a chunk of the last round failed, the shortest of
\* that round's queries that failed with it, and nothing else: a round starts
\* with no sample, a failure with such a code records its query unless a
\* sample of that code at most as long is there, no other step changes the
\* samples, and the failures of earlier rounds are not reported.
C24_DiagnosticsOfLastRound ==
    /\ [][tries' = tries + 1 => error_query' = EmptyDict]_vars
    /\ [][(count' = count + 1 /\ e'.type = "WikiError" /\ e'.http_code \notin {RateLimited, 0}) =>
             /\ DOMAIN error_query' = DOMAIN error_query \cup {e'.http_code}
             /\ \A code \in DOMAIN error_query \ {e'.http_code} :
                   error_query'[code] = error_query[code]
             /\ error_query'[e'.http_code] =
                   IF e'.http_code \in DOMAIN error_query
                         /\ error_query[e'.http_code] <= Cardinality(chunk')
                   THEN error_query[e'.http_code]
                   ELSE Cardinality(chunk')]_vars
    /\ [][(calls' = calls /\ tries' = tries
              /\ ~(count' = count + 1 /\ e'.type = "WikiError"
                      /\ e'.http_code \notin {RateLimited, 0})) =>
             error_query' = error_query]_vars
    /\ [](\A code \in DOMAIN error_query :
             code \in DOMAIN observed /\ observed[code] <= error_query[code])

\* C24 witness: a call returned after a second or third round in which chunks
\* failed with two status codes, the only codes of the call.
C24_Witness ==
    /\ pc = "returned"
    /\ tries >= 2
    /\ Cardinality(DOMAIN error_query) = 2
    /\ DOMAIN observed = DOMAIN error_query

-----------------------------------------------------------------------------
(* Claims on the country reconciliation, continued. *)

\* The countries of the contributors of the last title, all roles together.
RoleValues ==
    DOMAIN lastWd.producer \cup DOMAIN lastWd.director
        \cup DOMAIN lastWd.writer \cup DOMAIN lastWd.casting

\* C25: when a title has no main country (and OMDb gives none), the candidates
\* are the countries of its producers, directors, writers and cast, so that a
\* title with contributors gets a non-empty tuple.
C25_FallbackToContributors ==
    Merged /\ lastWd.main = {} /\ lastOm = {}
        => /\ Candidates(lastWd, lastOm) = RoleValues
           /\ RoleValues # {} => ctr # <<>>

\* C26: when country_lang is non-empty and has a candidate, the candidates
\* become those that are in country_lang; otherwise they stay as they are
\* (what is returned is the cutoff of the one or of the other); a country of
\* country_lang that was not a candidate is never returned.
C26_LanguageFilter ==
    Merged =>
        LET main == Candidates(lastWd, lastOm)
            ok_lang == main \cap lastWd.country_lang
        IN  /\ ok_lang # {} => Returned = CutOff(lastWd, ok_lang)
            /\ ok_lang = {} => Returned = CutOff(lastWd, main)
            /\ Returned \subseteq main

C26_Witness ==
    /\ Merged
    /\ Candidates(lastWd, lastOm) \ lastWd.country_lang # {}
    /\ lastWd.country_lang \ Candidates(lastWd, lastOm) # {}
    /\ Returned # {}
    /\ Returned = Candidates(lastWd, lastOm) \cap lastWd.country_lang

\* C27: when all the candidates have the same RankKey, all of them are
\* returned, each once, however many they are.
C27_DegenerateCutoff ==
    Merged /\ Cardinality(CandKeys) = 1
        => Returned = Cand /\ Len(ctr) = Cardinality(Cand)

C27_Witness ==
    /\ Merged
    /\ Cardinality(CandKeys) = 1
    /\ Cardinality(Cand) > index_threshold
    /\ Returned = Cand

\* C28: once FilmAffinityApi.ACTIVE is False it is never True again; it becomes
\* False only in a get call that sent a request and returns None; from then on
\* every get call for an id without a fresh cache entry returns None and sends
\* no request; and the start of another batch leaves the flag as it is, so
\* that a failure in a batch disables the lookups of the later batches.
C28_FilmAffinityDeactivation ==
    [][ /\ ~ACTIVE => ~ACTIVE'
        /\ (ACTIVE /\ ~ACTIVE') => (ff_calls' # ff_calls /\ ff_requested' /\ ff_ret' = None)
        /\ (ff_calls' # ff_calls /\ ~ACTIVE /\ ff_id' \notin json_cache)
              => (ff_ret' = None /\ ~ff_requested')
        /\ ff_batch' # ff_batch => ACTIVE' = ACTIVE ]_vars

\* The second get call of the process, made with nothing in the caches for a
\* proper id, in or before the second batch, returned None and sent no request:
\* the first call had set the flag to False.
C28_Witness ==
    /\ ~ACTIVE
    /\ ff_batch = MaxBatches
    /\ ff_calls = 2
    /\ ff_id \in FilmIds
    /\ json_cache = {}
    /\ html_cache = {}
    /\ ff_ret = None
    /\ ~ff_requested

DeactivatingAnswers ==
    {[kind |-> "HTTPError", code |-> Unauthorized],
     [kind |-> "Error", Error |-> "Request limit reached!"]}

\* C29: the OMDb flag starts active; it becomes inactive exactly in a lookup
\* that gets HTTP 401 or the error "Request limit reached!"; it never becomes
\* active again; while it is inactive a lookup of an id that is not cached (in
\* the process or in a fresh file) returns None and sends no request; and any
\* other HTTP error is raised to the caller and leaves the flag as it was.
C29_OmdbDeactivation ==
    /\ [](omdb_calls = 0 => omdbapi_activate)
    /\ [][ /\ ~omdbapi_activate => ~omdbapi_activate'
           /\ (omdbapi_activate /\ ~omdbapi_activate')
                 <=> (omdb_calls' # omdb_calls /\ omdbapi_activate
                      /\ omdb_answer' \in DeactivatingAnswers)
           /\ (omdb_calls' # omdb_calls /\ ~omdbapi_activate
               /\ omdb_id' \notin DOMAIN omdb_memo \cup omdb_json)
                 => (omdb_ret' = None /\ omdb_answer' = NoRequest)
           /\ (omdb_calls' # omdb_calls /\ omdb_answer'.kind = "HTTPError"
               /\ omdb_answer' \notin DeactivatingAnswers)
                 => (omdb_ret' = Raised /\ omdbapi_activate' = omdbapi_activate) ]_vars

\* Two lookups, of the two ids, none of them in a file: the first one was
\* answered "Request limit reached!" or 401, the second one returned None and
\* sent no request.
C29_Witness ==
    /\ ~omdbapi_activate
    /\ omdb_calls = 2
    /\ omdb_json = {}
    /\ DOMAIN omdb_memo = OmdbIds
    /\ \A id \in OmdbIds : omdb_memo[id] = None
    /\ omdb_ret = None
    /\ omdb_answer = NoRequest

\* The keys of the call are conserved: pending or resolved, none lost and none
\* added.
Conserved == undone \cup DOMAIN result = DropEmpty(args)

\* C30: at every point between the chunk attempts of a call, and when it has
\* returned, the pending keys and the keys of result are together the requested
\* keys that are neither None nor ''; and this is so also when func answered
\* with an entry for a key that is not pending: the entry does not end the call
\* by an exception, and result has requested keys only.
C30_KeyConservation ==
    /\ pc \in {"loop", "chunks", "returned"} => Conserved
    /\ e.type = "KeyError" => (pc # "raised" /\ DOMAIN result \subseteq DropEmpty(args))

-----------------------------------------------------------------------------
(* Claims on the country reconciliation, implicit in the code. *)

\* C31: every value __merge_countries returns is a value of omdb or of
\* wd.main, and no value is returned twice: the countries of the producers,
\* directors, writers and cast are never added.
C31_OnlyNamedCountries ==
    Merged => /\ Returned \subseteq lastOm \cup lastWd.main
              /\ Len(ctr) = Cardinality(Returned)

\* A contributor is of a country that neither source names, and several
\* countries are returned.
C31_Witness ==
    /\ Merged
    /\ RoleValues \ (lastOm \cup lastWd.main) # {}
    /\ Len(ctr) >= 2

\* The candidates of the largest RankKey.
TopCandidates == {m \in Cand : \A x \in Cand : TupleGE(Order(lastWd, m), Order(lastWd, x))}

\* C32: __merge_countries returns the empty tuple if and only if omdb and
\* wd.main are both empty; otherwise the candidates of the largest RankKey are
\* among the values returned.
C32_CutoffNeverEmpties ==
    Merged => /\ ctr = <<>> <=> (lastOm = {} /\ lastWd.main = {})
              /\ TopCandidates \subseteq Returned
              /\ lastOm \cup lastWd.main # {} => TopCandidates # {}

\* The cutoff dropped a candidate and kept those of the largest RankKey.
C32_Witness ==
    /\ Merged
    /\ Cand \ Returned # {}
    /\ TopCandidates # {}
    /\ TopCandidates \subseteq Returned

ReturnedKeys == {Order(lastWd, ctr[k]) : k \in DOMAIN ctr}

\* C33: the values returned have at most 3 distinct RankKeys, and they are
\* exactly the candidates with fewer than 3 distinct RankKeys of candidates
\* above their own; with ties they can be more than 3.
C33_ThreeLargestKeys ==
    Merged =>
        /\ Cardinality(ReturnedKeys) <= index_threshold
        /\ Returned = {m \in Cand :
                          Cardinality({k \in CandKeys : TupleGT(k, Order(lastWd, m))})
                              < index_threshold}

\* More than 3 values of exactly 3 RankKeys are returned, a candidate of a
\* 4th RankKey is not.
C33_Witness ==
    /\ Merged
    /\ Cardinality(ReturnedKeys) = index_threshold
    /\ Cardinality(Returned) > index_threshold
    /\ Cardinality(CandKeys) > Cardinality(ReturnedKeys)

\* The first component of the RankKey is the same for all the values of S.
SameLanguageComponent(S) == \A a, b \in S : Order(lastWd, a)[1] = Order(lastWd, b)[1]

\* C34: the set left by the language narrowing, which the cutoff is applied
\* to, is the candidates of the language set or all the candidates, and the
\* first component of the RankKey is the same for all its values; so two
\* values returned compare as the weights of their producers, directors,
\* writers and cast do.
C34_LanguageComponentUniform ==
    Merged =>
        LET main == Candidates(lastWd, lastOm)
        IN  /\ \E S \in {main \cap lastWd.country_lang, main} :
                  /\ SameLanguageComponent(S)
                  /\ Returned = CutOff(lastWd, S)
            /\ \A a, b \in Returned :
                  TupleGT(Order(lastWd, a), Order(lastWd, b))
                      <=> TupleGT(Tail(Order(lastWd, a)), Tail(Order(lastWd, b)))

\* The narrowing dropped a candidate and left several, of the language set and
\* of different weights.
C34_Witness ==
    /\ Merged
    /\ Candidates(lastWd, lastOm) \ Cand # {}
    /\ Cardinality(CandKeys) >= 2
    /\ \A m \in Cand : Order(lastWd, m)[1] = 1

-----------------------------------------------------------------------------
(* Claims on the operations built on the wrapper. *)

\* C35: the mapping a call of a wrapped 1-to-1 operation returns never gives
\* two different keys the same value, whatever the keys, the chunk size and
\* the rounds, also when the two keys were sent in different chunks.
C35_OneToOneThroughChunking ==
    pc = "returned" =>
        \A k1, k2 \in DOMAIN result : result[k1] = result[k2] => k1 = k2

\* C36: get_alpha3 tries the four properties in the order P298, P298
\* statement, P984, P11897, each once; a key that has a code is not sent for a
\* later property and its code is never changed; and a key gets a code from a
\* property only when the values that property has for it give exactly one
\* valid alpha-3 code, which is the code it gets.
C36_PriorityChain ==
    /\ ValFields = <<"wdt:P298", "p:P298/ps:P298", "wdt:P984", "wdt:P11897">>
    /\ [](alpha_pc = "returned" => val_field = Len(ValFields))
    /\ [][ val_field' # val_field =>
              /\ val_field' = val_field + 1
              /\ alpha_undone' \cap DOMAIN done = {}
              /\ DOMAIN alpha_got' \subseteq alpha_undone'
              /\ \A k \in DOMAIN done : k \in DOMAIN done' /\ done'[k] = done[k]
              /\ \A k \in DOMAIN done' \ DOMAIN done :
                    /\ k \in DOMAIN alpha_got'
                    /\ {ParseAlpha3(cod) : cod \in alpha_got'[k]} \ {None} = {done'[k]}
              /\ \A k \in DOMAIN alpha_got' \ DOMAIN done' :
                    Cardinality({ParseAlpha3(cod) : cod \in alpha_got'[k]} \ {None}) # 1 ]_vars

\* The second property was asked for one key only, the other having its code
\* from the first one, and gave it two writings of one code: both keys have a
\* code, and the codes differ.
C36_Witness ==
    /\ val_field = 2
    /\ DOMAIN done = AlphaKeys
    /\ Cardinality(alpha_undone) = 1
    /\ \E k \in DOMAIN alpha_got : alpha_got[k] = {"ES", "ESP"}
    /\ \E k1, k2 \in AlphaKeys : done[k1] # done[k2]

====
